---- MODULE Spec2Model ----
(***************************************************************************)
(* duo: a typed, cache-aside access layer over a hash/range-keyed store.   *)
(*                                                                         *)
(* The model follows src/duo.py.  One Table (schema) is bound to one       *)
(* backing-store table and, optionally, to a cache.  A caller holds Item   *)
(* objects (records) obtained from Table.__getitem__ or Table.create and   *)
(* calls put / save / delete and the Field descriptors on them.            *)
(*                                                                         *)
(* Python values are modelled as strings: None is the string "None",       *)
(* the False placed by Item.get_expected is the string "False".  A Python  *)
(* dict is a function whose domain is the set of its keys.  The keys of    *)
(* the dict built by Item.get_expected are modelled as tuples: <<name>>    *)
(* for a key that is an attribute name and <<name, value>> for a key that  *)
(* is a (name, value) pair.                                                *)
(*                                                                         *)
(* The backing store (boto) and the cache client are external: they are    *)
(* modelled by their contracts (get_item / put_item / update_item /        *)
(* delete_item / query, and get / set / delete) at the places duo.py       *)
(* calls them.                                                             *)
(***************************************************************************)
EXTENDS Integers, Sequences, FiniteSets, TLC

\* ------------------------------------------------------------------ bounds

\* Number of distinct values a non-key attribute can take.
MaxVal == 1

ValueNames == <<"v1", "v2", "v3", "v4">>

Values == {ValueNames[n] : n \in 1..MaxVal}

\* ------------------------------------------------------- program constants

None == "None"

False == "False"

\* Table.table_name of the declared Table/Item subclass.
table_name == "t"

\* Table.cache_prefix: None unless a subclass sets it.
cache_prefix == None

\* The key schema's attribute names (boto's table.schema).
hash_key_name == "h"

\* The name of the range key attribute of a schema that has one.
RangeAttr == "r"

\* The non-key attribute of the declared Item subclass (a UnicodeField).
FieldAttr == "x"

\* Hash key values and range key values the callers use.
HashKeys == {"a"}

\* Hash key values of the callers of SpecKeys: one of them holds the separator
\* of the cache key.
WideHashKeys == {"a", "a_b"}

RangeKeys == {"b"}

\* Range keys in the store's query order.
RangeKeySeq == <<"b">>

ItemIds == {"r1"}

\* Exceptions the cache client can raise: one that carries a `message`
\* attribute and one that does not (every Python 3 exception).
CacheExcs == {"with_message", "no_message"}

\* What goes wrong in the collaborators during one call of put / save /
\* delete: nothing, the store call raises, or the cache call raises.
Faults == {"none", "TransportError"} \cup CacheExcs

VARIABLES
    range_key_name,   \* Table.range_key_name: None or the range attribute
    has_cache,        \* Table.cache is not None
    cache_duration,   \* Item.cache_duration: None or a duration
    store,            \* the backing table: a set of raw attribute mappings
    cache,            \* the cache: cache key -> raw attribute mapping
    items,            \* the Item objects the caller holds, by handle
    result,           \* what the last call did and returned
    put_ok,           \* keys whose last store write is a put that returned
    put_synced,       \* those of put_ok whose cache entry that put left absent or written
    overwritten,      \* handles whose key another writer wrote after they were loaded
    members,          \* EnumMeta: registry -> the names of its members, in order
    enum_attrs,       \* EnumMeta: the attributes set on the metaclass, name -> member
    field,            \* the Field descriptor declared on the Item subclass
    obj,              \* the raw mapping of the Item the descriptor is used on
    fout,             \* what the last call of the descriptor did and returned
    table_types,      \* Item._table_types: table name -> the Item subclass declared
    pending           \* the handle of a put that wrote the store and not yet the cache

\* The variables of the table, the cache and the held items.
tvars == <<range_key_name, has_cache, cache_duration, store, cache, items,
           result, put_ok, put_synced, overwritten>>

\* The variables of the registries and of the field descriptor.
fvars == <<members, enum_attrs, field, obj, fout, table_types>>

vars == <<tvars, fvars, pending>>

\* ------------------------------------------------------------ dict helpers

DictGet(d, k, default) == IF k \in DOMAIN d THEN d[k] ELSE default

DictSet(d, k, v) == [n \in DOMAIN d \cup {k} |-> IF n = k THEN v ELSE d[n]]

DictDel(d, k) == [n \in DOMAIN d \ {k} |-> d[n]]

DictUpdate(d, e) ==
    [n \in DOMAIN d \cup DOMAIN e |-> IF n \in DOMAIN e THEN e[n] ELSE d[n]]

EmptyDict == <<>>

\* ------------------------------------------------------------------- Item

KeyAttrs ==
    IF range_key_name = None THEN {hash_key_name}
    ELSE {hash_key_name, range_key_name}

\* boto's Item constructor followed by Item.__init__: the key attributes come
\* from the arguments (the range key from attrs when it is not given), the
\* other attributes are set from attrs (each recorded as a pending PUT), and
\* the snapshot _original is a copy of the mapping.
NewItem(hash_key, range_key, attrs) ==
    LET hk == IF hash_key = None
              THEN DictGet(attrs, hash_key_name, None) ELSE hash_key
        rk == IF range_key = None
              THEN DictGet(attrs, range_key_name, None) ELSE range_key
        keys == IF range_key_name = None
                THEN (hash_key_name :> hk)
                ELSE (hash_key_name :> hk) @@ (range_key_name :> rk)
        rest == [n \in DOMAIN attrs \ KeyAttrs |-> attrs[n]]
        raw == DictUpdate(keys, rest)
    IN  [raw |-> raw,
         original |-> raw,
         is_new |-> FALSE,
         updates |-> [n \in DOMAIN rest |-> "PUT"]]

hash_key(item) == item.raw[hash_key_name]

range_key(item) == DictGet(item.raw, range_key_name, None)

ItemKey(item) == <<hash_key(item), range_key(item)>>

\* Table._extend
extend(item, is_new) == [item EXCEPT !.is_new = is_new]

\* Table._get_cache_key
get_cache_key(hash_key_, range_key_) ==
    LET prefix == IF cache_prefix /= None THEN cache_prefix ELSE table_name
    IN  IF range_key_ = None
        THEN prefix \o "_" \o hash_key_
        ELSE prefix \o "_" \o hash_key_ \o "_" \o range_key_

\* Item._cache_key with a fault: the range key is left out of the cache key.
cache_key_hash_only(item) == get_cache_key(hash_key(item), None)

\* Item._cache_key
cache_key(item) == get_cache_key(hash_key(item), range_key(item))

\* Item._set_cache: whether it calls cache.set at all.
SetsCache == has_cache /\ cache_duration /= None

\* Item._set_cache with a fault: it stores the snapshot, not the live mapping.
set_cache_stale(c, item) ==
    IF SetsCache THEN DictSet(c, cache_key(item), item.original) ELSE c

\* Item._set_cache: the cache after a cache.set that did not raise.
set_cache(c, item) ==
    IF SetsCache THEN DictSet(c, cache_key(item), item.raw) ELSE c

\* Item._delete_cache: the cache after a cache.delete that did not raise.
delete_cache(c, item) ==
    IF has_cache THEN DictDel(c, cache_key(item)) ELSE c

\* Item.get_expected with a fault: the snapshot's values are left out.
get_expected_placeholders(item) ==
    [k \in {<<n, item.raw[n]>> : n \in DOMAIN item.raw} |-> False]

\* Item.get_expected: False under every (name, value) pair of the mapping,
\* then the snapshot's values under its attribute names.
get_expected(item) ==
    LET placeholders ==
            [k \in {<<n, item.raw[n]>> : n \in DOMAIN item.raw} |-> False]
        originals ==
            [k \in {<<n>> : n \in DOMAIN item.original} |-> item.original[k[1]]]
    IN  DictUpdate(placeholders, originals)

\* ------------------------------------------------------------ the store

\* The records of the table under a key (none or one).
StoreFind(hash_key_, range_key_) ==
    {rec \in store : /\ rec[hash_key_name] = hash_key_
                     /\ DictGet(rec, range_key_name, None) = range_key_}

\* The store's check of a conditional write: an entry False requires the
\* attribute to be absent, any other entry requires it to hold that value.
\* A key that is not an attribute name names no attribute of any record.
ExpectedHolds(expected, current) ==
    \A k \in DOMAIN expected :
        LET present == /\ Len(k) = 1
                       /\ \E rec \in current : k[1] \in DOMAIN rec
        IN  IF expected[k] = False
            THEN ~present
            ELSE /\ present
                 /\ \A rec \in current : rec[k[1]] = expected[k]

\* put_item: the record under the item's key is replaced by the item.
StorePut(item) ==
    (store \ StoreFind(hash_key(item), range_key(item))) \cup {item.raw}

\* update_item: the pending updates are applied to the record under the
\* item's key (created with the key attributes when there is none).
StoreUpdate(item) ==
    LET current == StoreFind(hash_key(item), range_key(item))
        base == IF current = {}
                THEN [n \in KeyAttrs |-> item.raw[n]]
                ELSE CHOOSE rec \in current : TRUE
        puts == {n \in DOMAIN item.updates : item.updates[n] = "PUT"}
        dels == {n \in DOMAIN item.updates : item.updates[n] = "DELETE"}
        merged == [n \in (DOMAIN base \cup puts) \ dels |->
                      IF n \in puts THEN item.raw[n] ELSE base[n]]
    IN  (store \ current) \cup {merged}

\* delete_item
StoreDelete(item) == store \ StoreFind(hash_key(item), range_key(item))

\* query: the records under a hash key, in range key order.
RECURSIVE QueryFrom(_, _)
QueryFrom(hash_key_, n) ==
    IF n > Len(RangeKeySeq) THEN <<>>
    ELSE LET found == StoreFind(hash_key_, RangeKeySeq[n])
         IN  (IF found = {} THEN <<>>
              ELSE <<NewItem(None, None, CHOOSE rec \in found : TRUE)>>)
             \o QueryFrom(hash_key_, n + 1)

\* ---------------------------------------------------------------- Table

\* Table._get_cache: whether the cache holds an entry for the key.
CacheHit(hash_key_, range_key_) ==
    /\ has_cache
    /\ get_cache_key(hash_key_, range_key_) \in DOMAIN cache

\* Table._get_cache with a fault: the Item is built from the key alone.
get_cache_keys_only(hash_key_, range_key_) ==
    extend(NewItem(hash_key_, range_key_, EmptyDict), FALSE)

\* Table._get_cache: the Item built from the cached mapping.
get_cache(hash_key_, range_key_) ==
    extend(NewItem(hash_key_, range_key_,
                   cache[get_cache_key(hash_key_, range_key_)]), FALSE)

\* Table.create with a fault: the new item is not flagged.
create_persisted(hash_key_, range_key_, attrs) ==
    extend(NewItem(hash_key_, range_key_, attrs), FALSE)

\* Table.create
create(hash_key_, range_key_, attrs) ==
    extend(NewItem(hash_key_, range_key_, attrs), TRUE)

\* Table.query with a fault: the queried items are flagged as new.
query_as_new(hash_key_) ==
    LET found == QueryFrom(hash_key_, 1)
    IN  [n \in 1..Len(found) |-> extend(found[n], TRUE)]

\* Table.query / Table._extend_iter
query(hash_key_) ==
    LET found == QueryFrom(hash_key_, 1)
    IN  [n \in 1..Len(found) |-> extend(found[n], FALSE)]

\* What a call returns to the caller: the records with their flags.
Returned(its) == [n \in 1..Len(its) |-> [raw |-> its[n].raw, is_new |-> its[n].is_new]]

Result(op, hk, rk, outcome, store_ops, cache_ops, its) ==
    [op |-> op, hash_key |-> hk, range_key |-> rk, outcome |-> outcome,
     store_ops |-> store_ops, cache_ops |-> cache_ops, returned |-> Returned(its)]

\* The history of puts: a write to a key other than a put that returned.
Forget(k) ==
    /\ put_ok' = put_ok \ {k}
    /\ put_synced' = put_synced \ {k}

\* ----------------------------------------------------------------- Init

TypeOK ==
    /\ range_key_name \in {None, RangeAttr}
    /\ has_cache \in BOOLEAN
    /\ cache_duration \in {None, "60"}
    /\ DOMAIN items \subseteq ItemIds

Init ==
    /\ range_key_name \in {None, RangeAttr}
    /\ has_cache \in BOOLEAN
    /\ cache_duration \in {None, "60"}
    /\ store = {}
    /\ cache = EmptyDict
    /\ items = EmptyDict
    /\ result = Result("init", None, None, "ok", <<>>, <<>>, <<>>)
    /\ put_ok = {}
    /\ put_synced = {}
    /\ overwritten = {}
    /\ members = EmptyDict
    /\ enum_attrs = EmptyDict
    /\ field = EmptyDict
    /\ obj = EmptyDict
    /\ fout = EmptyDict
    /\ table_types = EmptyDict
    /\ pending = None

\* -------------------------------------------------------------- actions

\* Table.get_item without its cache write: the store's record as an Item.
get_item(hash_key_, range_key_) ==
    extend(NewItem(hash_key_, range_key_,
                   CHOOSE rec \in StoreFind(hash_key_, range_key_) : TRUE), FALSE)

\* A cache write under cache key c made for key k takes the entry away from
\* every other key that shares c.
Desync(c, k) == {j \in put_synced : j = k \/ get_cache_key(j[1], j[2]) /= c}

\* Table.__getitem__.  cache_fail says which cache.set call of the lookup
\* raises, if any.
Lookup(i, hash_key_, range_key_, cache_fail) ==
    /\ range_key_name = None => range_key_ = None
    /\ LET got == IF has_cache THEN <<"get">> ELSE <<>>
       IN
       IF CacheHit(hash_key_, range_key_)
       THEN LET item == get_cache(hash_key_, range_key_)
            IN  /\ items' = DictSet(items, i, item)
                /\ result' = Result("lookup", hash_key_, range_key_, "ok",
                                    <<>>, got, <<item>>)
                /\ overwritten' = overwritten \ {i}
                /\ UNCHANGED <<store, cache, put_synced>>
       ELSE IF range_key_ = None /\ range_key_name /= None
       THEN /\ result' = Result("lookup", hash_key_, range_key_, "ok",
                                <<"query">>, got, query(hash_key_))
            /\ UNCHANGED <<store, cache, items, put_synced, overwritten>>
       ELSE IF StoreFind(hash_key_, range_key_) = {}
       THEN \* DynamoDBKeyNotFoundError: a fresh item, which is not cached.
            LET item == create(hash_key_, range_key_, EmptyDict)
            IN  /\ items' = DictSet(items, i, item)
                /\ result' = Result("lookup", hash_key_, range_key_, "ok",
                                    <<"get_item">>, got, <<item>>)
                /\ overwritten' = overwritten \ {i}
                /\ UNCHANGED <<store, cache, put_synced>>
       ELSE LET item == get_item(hash_key_, range_key_)
                once == set_cache(cache, item)
                twice == set_cache(once, item)
            IN  IF SetsCache /\ cache_fail = "first"
                THEN /\ result' = Result("lookup", hash_key_, range_key_,
                                         "CacheError", <<"get_item">>,
                                         got \o <<"set">>, <<>>)
                     /\ UNCHANGED <<store, cache, items, put_synced, overwritten>>
                ELSE IF SetsCache /\ cache_fail = "second"
                THEN /\ cache' = once
                     /\ put_synced' = Desync(cache_key(item), ItemKey(item))
                     /\ result' = Result("lookup", hash_key_, range_key_,
                                         "CacheError", <<"get_item">>,
                                         got \o <<"set", "set">>, <<>>)
                     /\ UNCHANGED <<store, items, overwritten>>
                ELSE /\ cache' = twice
                     /\ put_synced' = IF SetsCache
                                      THEN Desync(cache_key(item), ItemKey(item))
                                      ELSE put_synced
                     /\ items' = DictSet(items, i, item)
                     /\ result' = Result("lookup", hash_key_, range_key_, "ok",
                                         <<"get_item">>,
                                         IF SetsCache THEN got \o <<"set", "set">>
                                         ELSE got,
                                         <<item>>)
                     /\ overwritten' = overwritten \ {i}
                     /\ UNCHANGED store
    /\ UNCHANGED <<range_key_name, has_cache, cache_duration, put_ok>>
    /\ UNCHANGED <<fvars, pending>>

\* Table.create, called by the caller.
Create(i, hash_key_, range_key_, attrs) ==
    /\ (range_key_name = None) <=> (range_key_ = None)
    /\ LET item == create(hash_key_, range_key_, attrs)
       IN  /\ items' = DictSet(items, i, item)
           /\ result' = Result("create", hash_key_, range_key_, "ok",
                               <<>>, <<>>, <<item>>)
           /\ overwritten' = overwritten \ {i}
    /\ UNCHANGED <<range_key_name, has_cache, cache_duration, store, cache,
                   put_ok, put_synced>>
    /\ UNCHANGED <<fvars, pending>>

\* What the caller sees when a cache call inside put / save / delete raises e:
\* the handler formats e.message into a warning.
AfterCacheFailure(e) == IF e = "no_message" THEN "AttributeError" ELSE "ok"

\* Item.put / Item.save with a fault: the snapshot is replaced by the mapping
\* that was written.
put_done_refreshes_snapshot(item, method) ==
    [item EXCEPT !.is_new = FALSE,
                 !.original = item.raw,
                 !.updates = IF method = "update_item" THEN EmptyDict ELSE @]

\* Item.put / Item.save after the store call returned: the flag is cleared
\* (update_item also empties the pending updates).
put_done(item, method) ==
    [item EXCEPT !.is_new = FALSE,
                 !.updates = IF method = "update_item" THEN EmptyDict ELSE @]

\* Item.delete after the store call returned: the flag is set again.
delete_done(item) == [item EXCEPT !.is_new = TRUE]

\* The handles other than i that hold an item of the key k, when the write
\* of i changed the store: their key was written after they were loaded.
Overwrites(i, k, written) ==
    IF written = store THEN {}
    ELSE {j \in DOMAIN items \ {i} : ItemKey(items[j]) = k}

\* Item.put / Item.save with a fault: the cache is written before the store
\* call, whatever the store call does.
PersistCachesFirst(i, op, method, expected_value, fault) ==
    LET item == items[i]
        k == ItemKey(item)
        current == StoreFind(k[1], k[2])
    IN
    IF fault = "TransportError" \/ ~ExpectedHolds(expected_value, current)
    THEN /\ result' = Result(op, k[1], k[2],
                             IF fault = "TransportError" THEN "TransportError"
                             ELSE "PreconditionFailed",
                             <<method>>,
                             IF SetsCache THEN <<"set">> ELSE <<>>, <<>>)
         /\ cache' = set_cache(cache, item)
         /\ UNCHANGED <<store, items, put_ok, put_synced, overwritten>>
    ELSE LET saved == put_done(item, method)
             raised == SetsCache /\ fault \in CacheExcs
             outcome == IF raised THEN AfterCacheFailure(fault) ELSE "ok"
             written == IF raised THEN cache ELSE set_cache(cache, saved)
         IN  /\ store' = IF method = "put_item" THEN StorePut(item)
                         ELSE StoreUpdate(item)
             /\ items' = DictSet(items, i, saved)
             /\ cache' = written
             /\ result' = Result(op, k[1], k[2], outcome, <<method>>,
                                 IF SetsCache THEN <<"set">> ELSE <<>>, <<saved>>)
             /\ overwritten' = (overwritten \ {i}) \cup Overwrites(i, k, store')
             /\ put_ok' = IF method = "put_item" /\ outcome = "ok"
                          THEN put_ok \cup {k} ELSE put_ok \ {k}
             /\ put_synced' =
                    LET others == IF SetsCache /\ ~raised
                                  THEN Desync(cache_key(saved), k)
                                  ELSE put_synced
                    IN  IF /\ method = "put_item" /\ outcome = "ok"
                           /\ \/ SetsCache /\ ~raised
                              \/ cache_key(saved) \notin DOMAIN written
                        THEN others \cup {k} ELSE others \ {k}

\* Item.put (method = "put_item") and Item.save (method = "update_item").
\* op names the method the caller called, expected_value is its
\* expected_value argument (the empty dict when there is none).
Persist(i, op, method, expected_value, fault) ==
    LET item == items[i]
        k == ItemKey(item)
        current == StoreFind(k[1], k[2])
    IN
    IF fault = "TransportError" \/ ~ExpectedHolds(expected_value, current)
    THEN /\ result' = Result(op, k[1], k[2],
                             IF fault = "TransportError" THEN "TransportError"
                             ELSE "PreconditionFailed",
                             <<method>>, <<>>, <<>>)
         /\ UNCHANGED <<store, cache, items, put_ok, put_synced, overwritten>>
    ELSE LET saved == put_done(item, method)
             raised == SetsCache /\ fault \in CacheExcs
             outcome == IF raised THEN AfterCacheFailure(fault) ELSE "ok"
             written == IF raised THEN cache ELSE set_cache(cache, saved)
         IN  /\ store' = IF method = "put_item" THEN StorePut(item)
                         ELSE StoreUpdate(item)
             /\ items' = DictSet(items, i, saved)
             /\ cache' = written
             /\ result' = Result(op, k[1], k[2], outcome, <<method>>,
                                 IF SetsCache THEN <<"set">> ELSE <<>>, <<saved>>)
             /\ overwritten' = (overwritten \ {i}) \cup Overwrites(i, k, store')
             /\ put_ok' = IF method = "put_item" /\ outcome = "ok"
                          THEN put_ok \cup {k} ELSE put_ok \ {k}
             /\ put_synced' =
                    LET others == IF SetsCache /\ ~raised
                                  THEN Desync(cache_key(saved), k)
                                  ELSE put_synced
                    IN  IF /\ method = "put_item" /\ outcome = "ok"
                           /\ \/ SetsCache /\ ~raised
                              \/ cache_key(saved) \notin DOMAIN written
                        THEN others \cup {k} ELSE others \ {k}

\* Item.put
Put(i, fault) ==
    /\ i \in DOMAIN items
    /\ Persist(i, "put", "put_item", EmptyDict, fault)
    /\ UNCHANGED <<range_key_name, has_cache, cache_duration>>
    /\ UNCHANGED <<fvars, pending>>

\* Item.put_conditionally
PutConditionally(i, fault) ==
    /\ i \in DOMAIN items
    /\ Persist(i, "put_conditionally", "put_item", get_expected(items[i]), fault)
    /\ UNCHANGED <<range_key_name, has_cache, cache_duration>>
    /\ UNCHANGED <<fvars, pending>>

\* Item.save
Save(i, fault) ==
    /\ i \in DOMAIN items
    /\ Persist(i, "save", "update_item", EmptyDict, fault)
    /\ UNCHANGED <<range_key_name, has_cache, cache_duration>>
    /\ UNCHANGED <<fvars, pending>>

\* Item.save_conditionally
SaveConditionally(i, fault) ==
    /\ i \in DOMAIN items
    /\ Persist(i, "save_conditionally", "update_item", get_expected(items[i]), fault)
    /\ UNCHANGED <<range_key_name, has_cache, cache_duration>>
    /\ UNCHANGED <<fvars, pending>>

\* Item.delete
Delete(i, fault) ==
    /\ i \in DOMAIN items
    /\ LET item == items[i]
           k == ItemKey(item)
       IN
       IF fault = "TransportError"
       THEN /\ result' = Result("delete", k[1], k[2], "TransportError",
                                <<"delete_item">>, <<>>, <<>>)
            /\ UNCHANGED <<store, cache, items, put_ok, put_synced, overwritten>>
       ELSE LET deleted == delete_done(item)
                raised == has_cache /\ fault \in CacheExcs
                outcome == IF raised THEN AfterCacheFailure(fault) ELSE "ok"
            IN  /\ store' = StoreDelete(item)
                /\ items' = DictSet(items, i, deleted)
                /\ cache' = IF raised THEN cache ELSE delete_cache(cache, deleted)
                /\ result' = Result("delete", k[1], k[2], outcome,
                                    <<"delete_item">>,
                                    IF has_cache THEN <<"delete">> ELSE <<>>,
                                    <<deleted>>)
                /\ overwritten' = (overwritten \ {i}) \cup Overwrites(i, k, store')
                /\ put_ok' = put_ok \ {k}
                /\ put_synced' =
                       (IF has_cache /\ ~raised
                        THEN Desync(cache_key(deleted), k) ELSE put_synced) \ {k}
    /\ UNCHANGED <<range_key_name, has_cache, cache_duration>>
    /\ UNCHANGED <<fvars, pending>>

\* UnicodeField.from_python
from_python(value) == value

\* UnicodeField.to_python
to_python(value) == value

\* Field.__set__ on the field named name.
FieldSet(i, name, value) ==
    /\ i \in DOMAIN items
    /\ LET item == items[i]
           k == ItemKey(item)
       IN
       IF name = hash_key_name
       THEN /\ result' = Result("set", k[1], k[2], "AttributeError: hash key",
                                <<>>, <<>>, <<item>>)
            /\ UNCHANGED items
       ELSE IF name = range_key_name
       THEN /\ result' = Result("set", k[1], k[2], "AttributeError: range key",
                                <<>>, <<>>, <<item>>)
            /\ UNCHANGED items
       ELSE LET changed ==
                    IF value = None
                    THEN IF name \in DOMAIN item.raw
                         THEN [item EXCEPT !.raw = DictDel(@, name),
                                           !.updates = DictSet(@, name, "DELETE")]
                         ELSE item
                    ELSE [item EXCEPT !.raw = DictSet(@, name, from_python(value)),
                                      !.updates = DictSet(@, name, "PUT")]
            IN  /\ items' = DictSet(items, i, changed)
                /\ result' = Result("set", k[1], k[2], "ok", <<>>, <<>>, <<changed>>)
    /\ UNCHANGED <<range_key_name, has_cache, cache_duration, store, cache,
                   put_ok, put_synced, overwritten>>
    /\ UNCHANGED <<fvars, pending>>

\* Field.__delete__ on the field named name.
FieldDelete(i, name) ==
    /\ i \in DOMAIN items
    /\ LET item == items[i]
           k == ItemKey(item)
       IN
       IF name = hash_key_name
       THEN /\ result' = Result("del", k[1], k[2], "AttributeError: hash key",
                                <<>>, <<>>, <<item>>)
            /\ UNCHANGED items
       ELSE IF name = range_key_name
       THEN /\ result' = Result("del", k[1], k[2], "AttributeError: range key",
                                <<>>, <<>>, <<item>>)
            /\ UNCHANGED items
       ELSE IF name \notin DOMAIN item.raw
       THEN /\ result' = Result("del", k[1], k[2], "KeyError",
                                <<>>, <<>>, <<item>>)
            /\ UNCHANGED items
       ELSE LET changed == [item EXCEPT !.raw = DictDel(@, name),
                                        !.updates = DictSet(@, name, "DELETE")]
            IN  /\ items' = DictSet(items, i, changed)
                /\ result' = Result("del", k[1], k[2], "ok", <<>>, <<>>, <<changed>>)
    /\ UNCHANGED <<range_key_name, has_cache, cache_duration, store, cache,
                   put_ok, put_synced, overwritten>>
    /\ UNCHANGED <<fvars, pending>>

\* Field.__get__ on a field without default, and Item.get_expected called by
\* the caller: neither changes the item.
Read(i, op) ==
    /\ i \in DOMAIN items
    /\ result' = Result(op, hash_key(items[i]), range_key(items[i]), "ok",
                        <<>>, <<>>, <<items[i]>>)
    /\ UNCHANGED <<range_key_name, has_cache, cache_duration, store, cache,
                   items, put_ok, put_synced, overwritten>>
    /\ UNCHANGED <<fvars, pending>>

\* Another writer (another process, another table object) replaces or
\* removes the store's record under a key; it does not touch this cache.
OtherWriter(hash_key_, range_key_, attrs, remove) ==
    /\ (range_key_name = None) <=> (range_key_ = None)
    /\ LET current == StoreFind(hash_key_, range_key_)
           rec == NewItem(hash_key_, range_key_, attrs).raw
       IN  /\ store' = IF remove THEN store \ current
                       ELSE (store \ current) \cup {rec}
           /\ store' /= store
    /\ result' = Result("other_writer", hash_key_, range_key_, "ok",
                        <<>>, <<>>, <<>>)
    /\ Forget(<<hash_key_, range_key_>>)
    /\ overwritten' = overwritten \cup
           {i \in DOMAIN items : ItemKey(items[i]) = <<hash_key_, range_key_>>}
    /\ UNCHANGED <<range_key_name, has_cache, cache_duration, cache, items>>
    /\ UNCHANGED <<fvars, pending>>

\* The cache drops an entry whose duration has run out.
CacheExpire(c) ==
    /\ c \in DOMAIN cache
    /\ cache' = DictDel(cache, c)
    /\ result' = Result("expire", None, None, "ok", <<>>, <<>>, <<>>)
    /\ UNCHANGED <<range_key_name, has_cache, cache_duration, store, items,
                   put_ok, put_synced, overwritten>>
    /\ UNCHANGED <<fvars, pending>>

\* The attribute mappings a caller passes to create or another writer writes.
AttrChoices == {EmptyDict} \cup {(FieldAttr :> v) : v \in Values}

\* The calls of a caller that uses the hash keys hks.
Calls(hks) ==
    \/ \E i \in ItemIds, h \in hks, r \in RangeKeys \cup {None},
          f \in {"none", "first", "second"} : Lookup(i, h, r, f)
    \/ \E i \in ItemIds, h \in hks, r \in RangeKeys \cup {None},
          a \in AttrChoices : Create(i, h, r, a)
    \/ \E i \in ItemIds, f \in Faults : Put(i, f)
    \/ \E i \in ItemIds, f \in Faults : PutConditionally(i, f)
    \/ \E i \in ItemIds, f \in Faults : Save(i, f)
    \/ \E i \in ItemIds, f \in Faults : SaveConditionally(i, f)
    \/ \E i \in ItemIds, f \in Faults : Delete(i, f)
    \/ \E i \in ItemIds, n \in KeyAttrs \cup {FieldAttr}, v \in Values \cup {None} :
          FieldSet(i, n, v)
    \/ \E i \in ItemIds, n \in KeyAttrs \cup {FieldAttr} : FieldDelete(i, n)
    \/ \E i \in ItemIds, op \in {"get", "get_expected"} : Read(i, op)

Next ==
    \/ Calls(HashKeys)
    \/ \E h \in HashKeys, r \in RangeKeys \cup {None}, a \in AttrChoices,
          d \in BOOLEAN : OtherWriter(h, r, a, d)
    \/ \E c \in DOMAIN cache : CacheExpire(c)

Spec == Init /\ [][Next]_vars

\* A caller whose hash keys may hold the separator of the cache key, with
\* collaborators that do not fail.
NextKeys ==
    \/ \E i \in ItemIds, h \in WideHashKeys, r \in RangeKeys \cup {None} :
          Lookup(i, h, r, "none")
    \/ \E i \in ItemIds, h \in WideHashKeys, r \in RangeKeys \cup {None},
          a \in AttrChoices : Create(i, h, r, a)
    \/ \E i \in ItemIds : Put(i, "none")

SpecKeys == Init /\ [][NextKeys]_vars

\* ---------------------------------------------------------------- claims
\* Every action sets result, so in a step that changes the state result'
\* describes the call that made the step; unprimed variables are the state
\* the call started from.

\* The key a lookup asks for is a single key (not a range query).
SingleKey(h, r) == r /= None \/ range_key_name = None

\* The cache holds an entry under the key's cache key.
InCache(h, r) == has_cache /\ get_cache_key(h, r) \in DOMAIN cache

WriteOps == {"put", "put_conditionally", "save", "save_conditionally", "delete"}

ConditionalOps == {"put_conditionally", "save_conditionally"}

\* The store call of a put / save / delete returned.
StoreCallReturned(r) == r.outcome \notin {"TransportError", "PreconditionFailed"}

\* The step is a lookup of a key whose store record was written by a put
\* that returned and has not been written since, and the lookup returns.
LookupAfterPut(keys) ==
    /\ result'.op = "lookup"
    /\ result'.outcome = "ok"
    /\ has_cache
    /\ <<result'.hash_key, result'.range_key>> \in keys

ReturnsStoreRecord ==
    \E rec \in StoreFind(result'.hash_key, result'.range_key) :
        result'.returned = <<[raw |-> rec, is_new |-> FALSE]>>

\* C1 as stated: with a cache configured, a lookup that follows a put of the
\* same key (no other write to the key in between) returns a record with
\* is_new = false holding the attributes the put wrote, whatever the cache
\* held before and whether or not the put's write-through succeeded.
C1_LookupAfterPutAnyCache ==
    [][LookupAfterPut(put_ok) => ReturnsStoreRecord]_vars

\* C1 amended: the same, provided the put's write-through stored the entry
\* or the cache held no entry under the key's cache key when put returned
\* (and no write under another key took that cache entry since).
C1_LookupAfterPut ==
    [][LookupAfterPut(put_synced) => ReturnsStoreRecord]_vars

\* C1 witness: a lookup served from the cache entry that a put wrote through.
C1_Witness ==
    /\ result.op = "lookup"
    /\ result.cache_ops = <<"get">>
    /\ result.store_ops = <<>>
    /\ <<result.hash_key, result.range_key>> \in put_synced
    /\ Len(result.returned) = 1
    /\ FieldAttr \in DOMAIN result.returned[1].raw

\* The store's record under the item's key differs from the item's snapshot
\* (no record at all included).
StoreDiffers(item) ==
    StoreFind(hash_key(item), range_key(item)) /= {item.original}

\* An attribute of the item's snapshot is missing from the store's record or
\* has another value there (no record at all included).
SnapshotContradicted(item) ==
    LET current == StoreFind(hash_key(item), range_key(item))
    IN  \/ current = {}
        \/ \E rec \in current, n \in DOMAIN item.original :
               n \notin DOMAIN rec \/ rec[n] /= item.original[n]

\* The step is a conditional write on handle i that reached the store.
ConditionalWrite(i) ==
    /\ i \in DOMAIN items
    /\ i \in overwritten
    /\ result'.op \in ConditionalOps
    /\ result'.outcome /= "TransportError"

C3_Lifecycle ==
    [][\A i \in ItemIds :
          /\ result'.op = "create" => items'[i].is_new
          /\ result'.op = "lookup" /\ result'.outcome = "ok"
                /\ SingleKey(result'.hash_key, result'.range_key)
             => items'[i].is_new =
                    (/\ ~InCache(result'.hash_key, result'.range_key)
                     /\ StoreFind(result'.hash_key, result'.range_key) = {})
          /\ result'.op \notin {"create", "lookup"} /\ i \in DOMAIN items
             => /\ i \in DOMAIN items'
                /\ IF result'.op \in WriteOps /\ result'.outcome = "ok"
                   THEN items'[i].is_new = (result'.op = "delete")
                   ELSE items'[i].is_new = items[i].is_new]_vars

\* C4: a single-key lookup of a key that is in neither the cache nor the
\* store returns a record with is_new = true that carries the requested hash
\* key and range key; it does not fail.
C4_MissReturnsDraft ==
    [][/\ result'.op = "lookup"
       /\ SingleKey(result'.hash_key, result'.range_key)
       /\ ~InCache(result'.hash_key, result'.range_key)
       /\ StoreFind(result'.hash_key, result'.range_key) = {}
       => /\ result'.outcome = "ok"
          /\ Len(result'.returned) = 1
          /\ result'.returned[1].is_new
          /\ result'.returned[1].raw[hash_key_name] = result'.hash_key
          /\ DictGet(result'.returned[1].raw, range_key_name, None)
                = result'.range_key]_vars

\* C4 witness: a lookup that asked the store, found nothing and returned a
\* draft.
C4_Witness ==
    /\ result.op = "lookup"
    /\ result.store_ops = <<"get_item">>
    /\ result.outcome = "ok"
    /\ Len(result.returned) = 1
    /\ result.returned[1].is_new

\* C5: a put, save or delete whose store call returned returns normally to
\* the caller, whatever the cache call that follows raises.
C5_CacheFailureNeverSurfaces ==
    result.op \in WriteOps /\ StoreCallReturned(result) => result.outcome = "ok"

\* C6: a lookup that misses the cache and finds the record in the store
\* returns it with is_new = false, whatever the cache write raises.
C6_LookupSurvivesCacheFailure ==
    [][/\ result'.op = "lookup"
       /\ SingleKey(result'.hash_key, result'.range_key)
       /\ ~InCache(result'.hash_key, result'.range_key)
       /\ StoreFind(result'.hash_key, result'.range_key) /= {}
       => /\ result'.outcome = "ok"
          /\ ReturnsStoreRecord]_vars

\* C7: cache keys of distinct keys are distinct, so the entry a lookup is
\* served from the cache was cached for the key the lookup asks for.
C7_CacheEntryIsForRequestedKey ==
    [][result'.op = "lookup" /\ InCache(result'.hash_key, result'.range_key)
       => LET entry == cache[get_cache_key(result'.hash_key, result'.range_key)]
          IN  /\ entry[hash_key_name] = result'.hash_key
              /\ DictGet(entry, range_key_name, None) = result'.range_key]_vars

\* C8: a lookup whose cache key has an entry returns a record with
\* is_new = false whose non-key attributes are the cached ones, and makes no
\* store call and no cache write.
C8_CacheHitTouchesNothing ==
    [][result'.op = "lookup" /\ InCache(result'.hash_key, result'.range_key)
       => LET entry == cache[get_cache_key(result'.hash_key, result'.range_key)]
          IN  /\ result'.outcome = "ok"
              /\ Len(result'.returned) = 1
              /\ ~result'.returned[1].is_new
              /\ [n \in DOMAIN result'.returned[1].raw \ KeyAttrs |->
                     result'.returned[1].raw[n]]
                    = [n \in DOMAIN entry \ KeyAttrs |-> entry[n]]
              /\ result'.store_ops = <<>>
              /\ result'.cache_ops = <<"get">>
              /\ store' = store
              /\ cache' = cache]_vars

\* C8 witness: a lookup served from a cache entry that holds an attribute.
C8_Witness ==
    /\ result.op = "lookup"
    /\ result.store_ops = <<>>
    /\ result.cache_ops = <<"get">>
    /\ Len(result.returned) = 1
    /\ ~result.returned[1].is_new
    /\ FieldAttr \in DOMAIN result.returned[1].raw

\* The step is a lookup that misses the cache, fetches the single record from
\* the store and returns.
FetchedFromStore ==
    /\ result'.op = "lookup"
    /\ result'.outcome = "ok"
    /\ has_cache
    /\ SingleKey(result'.hash_key, result'.range_key)
    /\ ~InCache(result'.hash_key, result'.range_key)
    /\ StoreFind(result'.hash_key, result'.range_key) /= {}

\* The cache holds the store's record under the looked-up key's cache key.
CachedAfterwards ==
    LET c == get_cache_key(result'.hash_key, result'.range_key)
    IN  /\ c \in DOMAIN cache'
        /\ cache'[c] \in StoreFind(result'.hash_key, result'.range_key)

\* C9 as stated: with a cache configured and no cache failure, a lookup that
\* misses the cache and fetches the record from the store leaves the record
\* in the cache under the key's cache key.
C9_FetchPopulatesAnyCache ==
    [][FetchedFromStore => CachedAfterwards]_vars

\* C9 amended: the same, for a record variant that declares a cache_duration.
C9_FetchPopulatesCache ==
    [][FetchedFromStore /\ cache_duration /= None => CachedAfterwards]_vars

\* C9 witness: a lookup fetched from the store and wrote the cache entry.
C9_Witness ==
    /\ result.op = "lookup"
    /\ result.outcome = "ok"
    /\ result.store_ops = <<"get_item">>
    /\ result.cache_ops = <<"get", "set", "set">>
    /\ InCache(result.hash_key, result.range_key)
    /\ cache[get_cache_key(result.hash_key, result.range_key)]
          = result.returned[1].raw

\* C10: on a cache miss a lookup with a range key, or without one on a
\* schema without range key, makes one get_item; a lookup without range key
\* on a schema with one makes one query and no get_item, returns the records
\* under the hash key with is_new = false, and writes none to the cache.
C10_StoreCallByKeyShape ==
    [][result'.op = "lookup" /\ ~InCache(result'.hash_key, result'.range_key)
       => IF SingleKey(result'.hash_key, result'.range_key)
          THEN result'.store_ops = <<"get_item">>
          ELSE /\ result'.store_ops = <<"query">>
               /\ result'.outcome = "ok"
               /\ \A n \in 1..Len(result'.returned) :
                      ~result'.returned[n].is_new
               /\ {result'.returned[n].raw : n \in 1..Len(result'.returned)}
                     = {rec \in store : rec[hash_key_name] = result'.hash_key}
               /\ \A n \in 1..Len(result'.cache_ops) :
                      result'.cache_ops[n] /= "set"
               /\ cache' = cache]_vars

\* C10 witness: a range query that returned a record.
C10_Witness ==
    /\ result.op = "lookup"
    /\ result.store_ops = <<"query">>
    /\ Len(result.returned) = 1
    /\ ~result.returned[1].is_new

\* C11: get_expected returns a mapping keyed by attribute name: its keys are
\* exactly the names present in the live mapping or in the snapshot, a name
\* of the snapshot maps to its snapshot value and a name that is only in the
\* live mapping maps to False.
C11_ExpectedKeyedByName ==
    result.op = "get_expected" =>
        \A i \in DOMAIN items :
            LET item == items[i]
                expected == get_expected(item)
            IN  /\ DOMAIN expected
                      = {<<n>> : n \in DOMAIN item.raw \cup DOMAIN item.original}
                /\ \A n \in DOMAIN item.original :
                       expected[<<n>>] = item.original[n]
                /\ \A n \in DOMAIN item.raw \ DOMAIN item.original :
                       expected[<<n>>] = False

PersistOps == {"put", "put_conditionally", "save", "save_conditionally"}

\* C12: a record's snapshot is its last-known-persisted state: the loaded
\* state after a lookup, and after each put or save that succeeds the raw
\* mapping that was just written.
C12_SnapshotIsLastPersisted ==
    [][\A i \in DOMAIN items' :
          /\ result'.op = "lookup" /\ result'.outcome = "ok"
                /\ SingleKey(result'.hash_key, result'.range_key)
             => items'[i].original = items'[i].raw
          /\ result'.op \in PersistOps /\ result'.outcome = "ok"
             => items'[i].original = items'[i].raw]_vars

\* ------------------------------------------------- values of the fields
\* A Python value is a record [t, n, u, s]: its type, and what the type needs
\* of an integer n, a second integer u and a string s.

\* Integers, date ordinals and timestamps run from 0 to MaxInt.
MaxInt == 2

PyNone == [t |-> "none", n |-> 0, u |-> 0, s |-> ""]

Text(s) == [t |-> "str", n |-> 0, u |-> 0, s |-> s]

PyInt(n) == [t |-> "int", n |-> n, u |-> 0, s |-> ""]

\* time.mktime's result.
Float(n) == [t |-> "float", n |-> n, u |-> 0, s |-> ""]

\* datetime.date, by its ordinal.
Date(n) == [t |-> "date", n |-> n, u |-> 0, s |-> ""]

\* datetime.datetime, by its whole seconds (local time) and its microseconds.
DateTime(n, u) == [t |-> "datetime", n |-> n, u |-> u, s |-> ""]

\* A member class of a registry, by the registry and its index.
Variant(reg, idx) == [t |-> "variant", n |-> idx, u |-> 0, s |-> reg]

\* The list registry.members.
MemberList(reg) == [t |-> "list", n |-> 0, u |-> 0, s |-> reg]

\* The outcome of a call: the value returned, or the exception raised.
Ok(v) == [exc |-> "none", val |-> v]

Raise(e) == [exc |-> e, val |-> PyNone]

Digits == <<"0", "1", "2", "3", "4", "5", "6", "7", "8", "9">>

\* The decimal numeral of an integer.
RECURSIVE IntStr(_)
IntStr(n) ==
    IF n < 0 THEN "-" \o IntStr(0 - n)
    ELSE IF n < 10 THEN Digits[n + 1]
    ELSE IntStr(n \div 10) \o Digits[(n % 10) + 1]

\* if value: the truth value of a Python value.  A member class is true when
\* its index is not 0 (EnumMeta.__bool__ / __nonzero__).
Truthy(v) ==
    CASE v.t = "none" -> FALSE
      [] v.t = "str" -> v.s /= ""
      [] v.t \in {"int", "float", "variant"} -> v.n /= 0
      [] OTHER -> TRUE

\* value == 0
IsZero(v) == v.t \in {"int", "float"} /\ v.n = 0

\* ------------------------------------------------------------- EnumMeta

\* The registries (classes whose metaclass is EnumMeta) of the program.
Registries == {"Placeholder", "Other"}

\* No registry declared yet.
NoEnums == [members |-> [reg \in Registries |-> <<>>], attrs |-> EmptyDict]

\* EnumMeta.__init__ for a subclass of the registry reg whose class name is
\* name: the class is appended to the registry's members, gets the index of
\* its position, and is set as the attribute `name` of the metaclass.
register(enums, reg, name) ==
    LET idx == Len(enums.members[reg])
    IN  [members |-> [enums.members EXCEPT ![reg] = Append(@, name)],
         attrs |-> DictSet(enums.attrs, name, Variant(reg, idx))]

\* EnumMeta.__str__ / __unicode__: cls.key, the member's class name.
variant_key(v) == members[v.s][v.n + 1]

\* getattr(cls, name) on a registry: `members` is the registry's own
\* attribute; the member classes are attributes of the metaclass, whichever
\* registry they belong to.
class_getattr(reg, name) ==
    IF name = "members" THEN Ok(MemberList(reg))
    ELSE IF name \in DOMAIN enum_attrs THEN Ok(enum_attrs[name])
    ELSE Raise("AttributeError")

\* list indexing cls.members[n]: a negative n counts from the end.
members_at(reg, n) ==
    LET len == Len(members[reg])
    IN  IF 0 <= n /\ n < len THEN Ok(Variant(reg, n))
        ELSE IF 0 - len <= n /\ n < 0 THEN Ok(Variant(reg, n + len))
        ELSE Raise("IndexError")

\* EnumMeta.__getitem__
enum_getitem(reg, idx) ==
    IF idx.t = "variant" THEN members_at(reg, idx.n)
    ELSE IF idx.t = "int" THEN members_at(reg, idx.n)
    ELSE IF idx.t = "str" /\ class_getattr(reg, idx.s).exc = "none"
    THEN class_getattr(reg, idx.s)
    ELSE Raise("KeyError")

\* --------------------------------------------------------------- Field
\* A Field descriptor is a record [name, kind, readonly, default, enum_type];
\* default is [given, rule, v]: whether a default was passed, whether it is a
\* callable applied to the record, and the constant otherwise.

Kinds == {"unicode", "integer", "choice", "enum", "date", "datetime"}

\* Field(default=NONE)
NoDefault == [given |-> FALSE, rule |-> FALSE, v |-> PyNone]

ConstDefault(v) == [given |-> TRUE, rule |-> FALSE, v |-> v]

\* A callable default: lambda obj: obj[hash_key_name].
RuleDefault == [given |-> TRUE, rule |-> TRUE, v |-> PyNone]

\* six.text_type(value)
text_type(v) ==
    CASE v.t = "str" -> Text(v.s)
      [] v.t = "int" -> Text(IntStr(v.n))
      [] v.t = "float" -> Text(IntStr(v.n) \o ".0")
      [] v.t = "variant" -> Text(variant_key(v))
      [] v.t = "none" -> Text("None")
      [] v.t = "list" -> Text("[" \o v.s \o ".members]")
      [] v.t = "date" -> Text("date:" \o IntStr(v.n))
      [] OTHER -> Text("datetime:" \o IntStr(v.n) \o "." \o IntStr(v.u))

\* int(value): a numeral is parsed, a member class gives its index
\* (EnumMeta.__int__), other text is a ValueError, other types a TypeError.
int_of(v) ==
    CASE v.t \in {"int", "float", "variant"} -> Ok(PyInt(v.n))
      [] v.t = "str" ->
            IF \E n \in 0..MaxInt : IntStr(n) = v.s
            THEN Ok(PyInt(CHOOSE n \in 0..MaxInt : IntStr(n) = v.s))
            ELSE Raise("ValueError")
      [] OTHER -> Raise("TypeError")

\* <Field>.from_python with a fault: a value is stored as it is given.
from_python_unconverted(f, v) == Ok(v)

\* <Field>.from_python.  Of the values drawn here only a date has toordinal
\* and only a datetime has timetuple; time.mktime keeps the whole seconds.
field_from_python(f, v) ==
    CASE f.kind = "unicode" -> Ok(text_type(v))
      [] f.kind = "integer" -> int_of(v)
      [] f.kind = "choice" ->
            LET e == enum_getitem(f.enum_type, v)
            IN  IF e.exc /= "none" THEN e ELSE Ok(text_type(e.val))
      [] f.kind = "enum" ->
            LET e == enum_getitem(f.enum_type, v)
            IN  IF e.exc /= "none" THEN e ELSE int_of(e.val)
      [] f.kind = "date" ->
            IF v.t = "none" \/ IsZero(v) THEN Ok(PyInt(0))
            ELSE IF v.t = "date" THEN Ok(PyInt(v.n))
            ELSE Raise("ValueError")
      [] OTHER ->
            IF v.t = "none" \/ IsZero(v) THEN Ok(PyInt(0))
            ELSE IF v.t = "datetime" THEN Ok(Float(v.n))
            ELSE Raise("ValueError")

\* <Field>.to_python
field_to_python(f, v) ==
    CASE f.kind \in {"unicode", "integer"} -> Ok(v)
      [] f.kind \in {"choice", "enum"} -> enum_getitem(f.enum_type, v)
      [] f.kind = "date" ->
            IF v.t = "none" \/ IsZero(v) THEN Ok(PyNone)
            ELSE IF v.t /= "int" THEN Raise("TypeError")
            ELSE IF v.n < 1 THEN Raise("ValueError")
            ELSE Ok(Date(v.n))
      [] OTHER ->
            IF v.t = "none" \/ IsZero(v) THEN Ok(PyNone)
            ELSE IF v.t \notin {"int", "float"} THEN Raise("TypeError")
            ELSE Ok(DateTime(v.n, 0))

\* What a call of the descriptor leaves: the exception raised if any, the
\* value returned, and the record's raw mapping.
Left(exc, val, o) == [exc |-> exc, val |-> val, obj |-> o]

\* Field.__set__ with a fault: the value is converted before the checks.
field_set_converts_first(f, o, value) ==
    LET raw == field_from_python(f, value)
    IN  IF value.t /= "none" /\ raw.exc /= "none" THEN Left(raw.exc, PyNone, o)
        ELSE IF f.name = hash_key_name
        THEN Left("AttributeError: hash key", PyNone, o)
        ELSE IF f.name = range_key_name
        THEN Left("AttributeError: range key", PyNone, o)
        ELSE IF f.readonly
        THEN Left("AttributeError: read-only", PyNone, o)
        ELSE IF value.t = "none"
        THEN Left("none", PyNone,
                  IF f.name \in DOMAIN o THEN DictDel(o, f.name) ELSE o)
        ELSE Left("none", PyNone, DictSet(o, f.name, raw.val))

\* Field.__set__ with a fault: None is converted and stored as any value is.
field_set_stores_none(f, o, value) ==
    IF f.name = hash_key_name
    THEN Left("AttributeError: hash key", PyNone, o)
    ELSE IF f.name = range_key_name
    THEN Left("AttributeError: range key", PyNone, o)
    ELSE IF f.readonly
    THEN Left("AttributeError: read-only", PyNone, o)
    ELSE LET raw == field_from_python(f, value)
         IN  IF raw.exc /= "none" THEN Left(raw.exc, PyNone, o)
             ELSE Left("none", PyNone, DictSet(o, f.name, raw.val))

\* Field.__set__
field_set(f, o, value) ==
    IF f.name = hash_key_name
    THEN Left("AttributeError: hash key", PyNone, o)
    ELSE IF f.name = range_key_name
    THEN Left("AttributeError: range key", PyNone, o)
    ELSE IF f.readonly
    THEN Left("AttributeError: read-only", PyNone, o)
    ELSE IF value.t = "none"
    THEN Left("none", PyNone, IF f.name \in DOMAIN o THEN DictDel(o, f.name) ELSE o)
    ELSE LET raw == field_from_python(f, value)
         IN  IF raw.exc /= "none" THEN Left(raw.exc, PyNone, o)
             ELSE Left("none", PyNone, DictSet(o, f.name, raw.val))

\* Field.__delete__ with a fault: the key attributes are deleted as any other.
field_delete_unchecked(f, o) ==
    IF f.readonly
    THEN Left("AttributeError: read-only", PyNone, o)
    ELSE IF f.name \notin DOMAIN o
    THEN Left("KeyError", PyNone, o)
    ELSE Left("none", PyNone, DictDel(o, f.name))

\* Field.__delete__
field_delete(f, o) ==
    IF f.name = hash_key_name
    THEN Left("AttributeError: hash key", PyNone, o)
    ELSE IF f.name = range_key_name
    THEN Left("AttributeError: range key", PyNone, o)
    ELSE IF f.readonly
    THEN Left("AttributeError: read-only", PyNone, o)
    ELSE IF f.name \notin DOMAIN o
    THEN Left("KeyError", PyNone, o)
    ELSE Left("none", PyNone, DictDel(o, f.name))

\* Field.__get__: the except clause takes every KeyError of the try block,
\* the one of a missing attribute and the one to_python raises.
field_get(f, o) ==
    LET first == IF f.name \in DOMAIN o
                 THEN field_to_python(f, o[f.name]) ELSE Raise("KeyError")
    IN  IF first.exc = "none" THEN Left("none", first.val, o)
        ELSE IF first.exc /= "KeyError" THEN Left(first.exc, PyNone, o)
        ELSE IF ~f.default.given THEN Left("none", PyNone, o)
        ELSE LET given == IF f.default.rule THEN o[hash_key_name]
                          ELSE f.default.v
                 value == field_to_python(f, given)
             IN  IF value.exc /= "none" THEN Left(value.exc, PyNone, o)
                 ELSE IF ~Truthy(value.val) THEN Left("none", value.val, o)
                 ELSE LET stored == field_set(f, o, value.val)
                      IN  IF stored.exc /= "none"
                          THEN Left(stored.exc, PyNone, o)
                          ELSE Left("none", value.val, stored.obj)

\* ---------------------------------------------- the descriptor in use

\* The registries of the program once its classes are declared: Placeholder
\* with the members Foo and Bar, and in the second case a registry Other,
\* declared after it, with a member that is also named Bar.
OneRegistry ==
    register(register(NoEnums, "Placeholder", "Foo"), "Placeholder", "Bar")

TwoRegistries == register(OneRegistry, "Other", "Bar")

\* The defaults a declaration of the kind passes: none, or a constant in the
\* form to_python takes, or (unicode) a callable.
Defaults(kind) ==
    {NoDefault} \cup
    CASE kind = "unicode" -> {ConstDefault(Text("bar")), RuleDefault}
      [] kind = "integer" -> {ConstDefault(PyInt(0)), ConstDefault(PyInt(1))}
      [] kind \in {"choice", "enum"} ->
            {ConstDefault(Variant("Placeholder", 0)),
             ConstDefault(Variant("Placeholder", 1))}
      [] OTHER -> {ConstDefault(PyNone), ConstDefault(PyInt(1))}

\* The declarations: a field of any kind on the attribute x, and a unicode
\* field on the hash key attribute and on the range attribute.
FieldDecls ==
    {[name |-> FieldAttr, kind |-> k, readonly |-> ro, default |-> d,
      enum_type |-> "Placeholder"] :
        k \in Kinds, ro \in BOOLEAN,
        d \in UNION {Defaults(kind) : kind \in Kinds}}
    \cup
    {[name |-> n, kind |-> "unicode", readonly |-> ro, default |-> NoDefault,
      enum_type |-> "Placeholder"] :
        n \in {hash_key_name, RangeAttr}, ro \in BOOLEAN}

Texts == {Text("bar"), Text("Bar"), Text("members"), Text("1")}

Ints == {PyInt(n) : n \in 0..MaxInt}

Dates == {Date(n) : n \in 1..MaxInt}

DateTimes == {DateTime(n, u) : n \in 0..MaxInt, u \in {0, 1}}

\* The member classes declared in any registry.
Variants ==
    UNION {{Variant(reg, n - 1) : n \in 1..Len(members[reg])} :
              reg \in DOMAIN members}

\* The values a caller assigns to a field of the declaration f.
InputsFor(f) ==
    ({PyNone} \cup Texts \cup Ints \cup Variants \cup Dates \cup DateTimes)
    \ (CASE f.kind = "date" -> DateTimes \cup Variants
         [] f.kind = "datetime" -> Dates \cup Variants
         [] OTHER -> {})

\* The raw values create is given for the attribute (or a record loaded
\* from the store holds).
RawInputs == {Text("bar"), Text("Bar")} \cup Ints

\* The raw mapping of a record that holds its key attributes only.
KeysOnly ==
    IF range_key_name = None THEN (hash_key_name :> Text("a"))
    ELSE (hash_key_name :> Text("a")) @@ (range_key_name :> Text("b"))

FOut(op, arg, left, echo) ==
    [op |-> op, arg |-> arg, exc |-> left.exc, val |-> left.val, echo |-> echo]

InitFields ==
    /\ range_key_name \in {None, RangeAttr}
    /\ has_cache = FALSE
    /\ cache_duration = None
    /\ store = {}
    /\ cache = EmptyDict
    /\ items = EmptyDict
    /\ result = Result("init", None, None, "ok", <<>>, <<>>, <<>>)
    /\ put_ok = {}
    /\ put_synced = {}
    /\ overwritten = {}
    /\ field \in FieldDecls
    /\ field.default \in Defaults(field.kind)
    /\ \E enums \in {OneRegistry, TwoRegistries} :
          /\ enums = TwoRegistries => field.kind \in {"choice", "enum"}
          /\ members = enums.members
          /\ enum_attrs = enums.attrs
    /\ obj = KeysOnly
    /\ fout = FOut("init", PyNone, Left("none", PyNone, obj), FALSE)
    /\ table_types = EmptyDict
    /\ pending = None

\* Table.create(hash_key, range_key, **{field.name: v}): the record under the
\* descriptor is a new one that holds v.
FCreate(v) ==
    /\ field.name \notin KeyAttrs
    /\ obj' = DictSet(KeysOnly, field.name, v)
    /\ fout' = FOut("create", v, Left("none", PyNone, obj'), FALSE)
    /\ UNCHANGED <<tvars, pending, members, enum_attrs, field, table_types>>

\* item.<field> = v.  echo records that v is the value the call before, a
\* get, returned.
FSet(v) ==
    /\ LET left == field_set(field, obj, v)
       IN  /\ obj' = left.obj
           /\ fout' = FOut("set", v, left,
                           fout.op = "get" /\ fout.exc = "none" /\ fout.val = v)
    /\ UNCHANGED <<tvars, pending, members, enum_attrs, field, table_types>>

\* item.<field>
FGet ==
    /\ LET left == field_get(field, obj)
       IN  /\ obj' = left.obj
           /\ fout' = FOut("get", PyNone, left, FALSE)
    /\ UNCHANGED <<tvars, pending, members, enum_attrs, field, table_types>>

\* del item.<field>
FDelete ==
    /\ LET left == field_delete(field, obj)
       IN  /\ obj' = left.obj
           /\ fout' = FOut("del", PyNone, left, FALSE)
    /\ UNCHANGED <<tvars, pending, members, enum_attrs, field, table_types>>

NextFields ==
    \/ \E v \in RawInputs : FCreate(v)
    \/ \E v \in InputsFor(field) : FSet(v)
    \/ FGet
    \/ FDelete

SpecFields == InitFields /\ [][NextFields]_vars

\* ------------------------------------------------- claims on the fields
\* Every call of the descriptor sets fout, so in a step that changes the
\* state fout' describes the call that made the step.

ImmutableKeyErrors == {"AttributeError: hash key", "AttributeError: range key"}

ReadOnlyError == "AttributeError: read-only"

\* ValueError and TypeError are what a conversion raises for a value it
\* cannot take.
ConversionErrors == {"ValueError", "TypeError"}

\* The declared field is on a key attribute of the record.
OnKey == field.name \in KeyAttrs

\* The declared field can be assigned: it is not on a key and not readonly.
Assignable == ~OnKey /\ ~field.readonly

\* C13: set and delete check immutability, then readonly, then convert: on a
\* field on the hash key or range key attribute they fail with the immutable
\* key error whatever the readonly flag and the value, on a readonly field
\* that is not on a key they fail with the read-only error whatever the
\* value, and in both cases the raw mapping is unchanged.
C13_ChecksBeforeConversion ==
    [][fout'.op \in {"set", "del"} =>
          /\ OnKey => fout'.exc \in ImmutableKeyErrors /\ obj' = obj
          /\ ~OnKey /\ field.readonly
                => fout'.exc = ReadOnlyError /\ obj' = obj]_vars

\* C13 witness: a readonly integer field was assigned text that is no
\* numeral and the call failed as read-only.
C13_Witness ==
    /\ fout.op = "set"
    /\ fout.arg = Text("bar")
    /\ field.kind = "integer"
    /\ field.readonly
    /\ fout.exc = ReadOnlyError

\* The value is not empty and is not one the field's kind can store: text
\* that is no numeral, a date or a datetime for an integer field; anything
\* but a date and 0 for a date field, anything but a datetime and 0 for a
\* datetime field.
Unserializable(f, v) ==
    /\ v.t /= "none"
    /\ \/ /\ f.kind = "integer"
          /\ \/ v.t \in {"date", "datetime"}
             \/ v.t = "str" /\ v.s \notin {IntStr(n) : n \in 0..MaxInt}
       \/ f.kind = "date" /\ v.t /= "date" /\ ~(v.t = "int" /\ v.n = 0)
       \/ f.kind = "datetime" /\ v.t /= "datetime" /\ ~(v.t = "int" /\ v.n = 0)

\* C14: assigning a value that the field cannot serialize fails with a
\* conversion error and leaves the raw mapping as it was, a value stored
\* before included.
C14_ConversionFailureKeepsRaw ==
    [][/\ fout'.op = "set"
       /\ Assignable
       /\ Unserializable(field, fout'.arg)
       => fout'.exc \in ConversionErrors /\ obj' = obj]_vars

\* C14 witness: an integer field that holds a value refused text that is no
\* numeral.
C14_Witness ==
    /\ fout.op = "set"
    /\ field.kind = "integer"
    /\ Assignable
    /\ fout.arg = Text("bar")
    /\ fout.exc = "ValueError"
    /\ field.name \in DOMAIN obj

\* The field is a choice over a registry, stored as text or as an integer.
IsChoice == field.kind \in {"choice", "enum"}

\* The value selects a member registered in the registry reg: it is such a
\* member, or the name of one, or the index of one.
SelectsVariant(reg, v) ==
    \/ v.t = "variant" /\ v.s = reg /\ v.n < Len(members[reg])
    \/ v.t = "str" /\ \E i \in 1..Len(members[reg]) : members[reg][i] = v.s
    \/ v.t = "int" /\ 0 <= v.n /\ v.n < Len(members[reg])

\* The member of reg that a selecting value selects.
Selected(reg, v) ==
    IF v.t = "str"
    THEN Variant(reg, (CHOOSE i \in 1..Len(members[reg]) :
                          members[reg][i] = v.s) - 1)
    ELSE Variant(reg, v.n)

\* C15: on a choice field, assigning a value succeeds exactly when the value
\* selects a member registered in the field's registry; it then stores the
\* member's name (text form) or index (integer form) and a get that follows
\* returns the member; a string that names no member of the registry fails
\* with KeyError and leaves the raw mapping unchanged.
C15_ChoiceSetExactlyRegistered ==
    [][/\ fout'.op = "set"
       /\ IsChoice
       /\ Assignable
       /\ fout'.arg.t /= "none"
       => LET v == fout'.arg
              reg == field.enum_type
          IN  /\ fout'.exc = "none" <=> SelectsVariant(reg, v)
              /\ fout'.exc = "none" /\ SelectsVariant(reg, v) =>
                    /\ field.name \in DOMAIN obj'
                    /\ obj'[field.name] =
                          IF field.kind = "choice"
                          THEN Text(variant_key(Selected(reg, v)))
                          ELSE PyInt(Selected(reg, v).n)
                    /\ field_get(field, obj').exc = "none"
                    /\ field_get(field, obj').val = Selected(reg, v)
              /\ v.t = "str" /\ ~SelectsVariant(reg, v) =>
                    fout'.exc = "KeyError" /\ obj' = obj]_vars

\* C16: assigning None to a field that is not on a key and not readonly
\* succeeds for every kind, leaves the attribute absent from the raw mapping
\* and every other attribute as it was; if the field has no default, a get
\* that follows returns None without error.
C16_SetNoneRemoves ==
    [][/\ fout'.op = "set"
       /\ fout'.arg = PyNone
       /\ Assignable
       => /\ fout'.exc = "none"
          /\ DOMAIN obj' = DOMAIN obj \ {field.name}
          /\ \A k \in DOMAIN obj' : obj'[k] = obj[k]
          /\ ~field.default.given =>
                field_get(field, obj') = Left("none", PyNone, obj')]_vars

\* C16 witness: a date field without default was assigned None and its
\* attribute is absent.
C16_Witness ==
    /\ fout.op = "set"
    /\ fout.arg = PyNone
    /\ fout.exc = "none"
    /\ field.kind = "date"
    /\ Assignable
    /\ ~field.default.given
    /\ field.name \notin DOMAIN obj

\* The value the declared default resolves to for the raw mapping o: the
\* constant, or the callable applied to the record, taken through to_python.
ResolvedDefault(f, o) ==
    field_to_python(f, IF f.default.rule THEN o[hash_key_name]
                       ELSE f.default.v)

\* The declared default resolves to a value that is neither empty nor zero.
DefaultResolves(f, o) ==
    /\ f.default.given
    /\ ResolvedDefault(f, o).exc = "none"
    /\ Truthy(ResolvedDefault(f, o).val)

\* C17: a get leaves the raw mapping unchanged except when it materializes
\* the default: if the attribute is absent and the default resolves to a
\* value that is neither empty nor zero, the get stores from_python of that
\* value under the field's name and returns the value; if the attribute is
\* present, or there is no default, or the default resolves to an empty or
\* zero value, the raw mapping stays as it was.
C17_GetOnlyMaterializesDefault ==
    [][fout'.op = "get" =>
          LET absent == field.name \notin DOMAIN obj
              value == ResolvedDefault(field, obj).val
          IN  /\ ~absent => obj' = obj
              /\ absent /\ DefaultResolves(field, obj) =>
                    /\ fout'.exc = "none"
                    /\ fout'.val = value
                    /\ obj' = DictSet(obj, field.name,
                                      field_from_python(field, value).val)
              /\ absent /\ ~DefaultResolves(field, obj) => obj' = obj]_vars

\* C18: a get on an attribute that is present but holds a value to_python
\* cannot interpret fails with the error of the conversion; it does not
\* return a value, neither the default nor None.
C18_GetSurfacesConversionError ==
    [][/\ fout'.op = "get"
       /\ field.name \in DOMAIN obj
       /\ field_to_python(field, obj[field.name]).exc /= "none"
       => fout'.exc /= "none"]_vars

\* The domain values of the declared field's kind: text, integers, the
\* members of the field's registry, dates and datetimes; None and 0 are the
\* empty values of a date and a datetime field.
DomainValues(f) ==
    CASE f.kind = "unicode" -> Texts
      [] f.kind = "integer" -> Ints
      [] f.kind \in {"choice", "enum"} ->
            {Variant(f.enum_type, n - 1) : n \in 1..Len(members[f.enum_type])}
      [] f.kind = "date" -> Dates \cup {PyNone, PyInt(0)}
      [] OTHER -> DateTimes \cup {PyNone, PyInt(0)}

\* to_python of from_python of x is x, or None where x is an empty value of
\* a date or a datetime field.
RoundTrips(f, x) ==
    LET raw == field_from_python(f, x)
    IN  /\ raw.exc = "none"
        /\ field_to_python(f, raw.val) =
              Ok(IF f.kind \in {"date", "datetime"}
                    /\ (x.t = "none" \/ IsZero(x))
                 THEN PyNone ELSE x)

\* C19: for every kind and every domain value x of the kind, to_python of
\* from_python of x is x, except that on a date and a datetime field None and
\* 0 both come back as None.
C19_RoundTrip ==
    [][fout'.op = "set" /\ fout'.arg \in DomainValues(field)
          => RoundTrips(field, fout'.arg)]_vars

\* C20: on a field that is not on a key and not readonly, assigning the
\* value the get before returned and then calling get returns that value
\* again.
C20_SetOfCurrentValueIsIdempotent ==
    [][/\ fout.op = "set"
       /\ fout.echo
       /\ Assignable
       /\ fout'.op = "get"
       => fout'.exc = "none" /\ fout'.val = fout.arg]_vars

\* ------------------------------------------------------ the metaclasses
\* Declarations of member classes of the registries (EnumMeta) and of Item
\* subclasses (_TableMeta), and the lookups that read what they registered.

\* Members a registry is given.
MaxMembers == 2

\* The class names of the member classes declared.
MemberNames == {"Foo", "Bar"}

\* The names of the tables and the Item subclasses declared for them; Item
\* is the mount point itself.
TableNames == {"t", "u", "w"}

ItemClasses == {"First", "Second", "Third"}

\* The selectors a caller passes to EnumMeta.__getitem__: integers (negative
\* and past the end included), member classes, strings, and values of other
\* types.
Selectors ==
    {PyInt(n) : n \in (0 - 1)..MaxMembers}
    \cup Variants
    \cup {Text(s) : s \in MemberNames \cup {"Baz", "members"}}
    \cup {PyNone, Float(0)}

\* What the last declaration or lookup did: the registry or table it was
\* made on, its argument, the exception raised if any and the value
\* returned.
EOut(op, reg, arg, out) ==
    [op |-> op, reg |-> reg, arg |-> arg, exc |-> out.exc, val |-> out.val]

InitMeta ==
    /\ range_key_name = None
    /\ has_cache = FALSE
    /\ cache_duration = None
    /\ store = {}
    /\ cache = EmptyDict
    /\ items = EmptyDict
    /\ result = Result("init", None, None, "ok", <<>>, <<>>, <<>>)
    /\ put_ok = {}
    /\ put_synced = {}
    /\ overwritten = {}
    /\ members = NoEnums.members
    /\ enum_attrs = NoEnums.attrs
    /\ field = EmptyDict
    /\ obj = EmptyDict
    /\ fout = EOut("init", "", PyNone, Ok(PyNone))
    /\ table_types = EmptyDict
    /\ pending = None

\* class <name>(<reg>): pass
ERegister(reg, name) ==
    /\ Len(members[reg]) < MaxMembers
    /\ LET enums == register([members |-> members, attrs |-> enum_attrs],
                             reg, name)
       IN  /\ members' = enums.members
           /\ enum_attrs' = enums.attrs
           /\ fout' = EOut("register", reg, Text(name),
                           Ok(Variant(reg, Len(members[reg]))))
    /\ UNCHANGED <<tvars, pending, field, obj, table_types>>

\* <reg>[idx]
EGetItem(reg, idx) ==
    /\ fout' = EOut("getitem", reg, idx, enum_getitem(reg, idx))
    /\ UNCHANGED <<tvars, pending, members, enum_attrs, field, obj, table_types>>

\* _TableMeta.__init__ with a fault: a table name that has a class keeps it.
declare_item_first_only(types, name, cls) ==
    IF name \in DOMAIN types THEN types ELSE DictSet(types, name, cls)

\* _TableMeta.__init__ for a subclass of Item: class <cls>(Item) with
\* table_name = <name>.
declare_item(types, name, cls) == DictSet(types, name, cls)

\* Item._table_types[name]: a defaultdict whose default is Item.
item_class(types, name) == DictGet(types, name, "Item")

\* class <cls>(duo.Item): table_name = <name>.  The outcome records the
\* class the table name had before.
TDeclare(name, cls) ==
    /\ table_types' = declare_item(table_types, name, cls)
    /\ fout' = EOut("declare", name, Text(cls),
                    Ok(Text(item_class(table_types, name))))
    /\ UNCHANGED <<tvars, pending, members, enum_attrs, field, obj>>

\* Table.create / Table.get_item / Table._get_cache on the table <name>: the
\* class of the Item they build.
TMake(name) ==
    /\ fout' = EOut("make", name, PyNone, Ok(Text(item_class(table_types, name))))
    /\ UNCHANGED <<tvars, pending, members, enum_attrs, field, obj, table_types>>

\* The declarations of member classes and the lookups in the registries.
NextMeta ==
    \/ \E reg \in Registries, name \in MemberNames : ERegister(reg, name)
    \/ \E reg \in Registries, idx \in Selectors : EGetItem(reg, idx)

SpecMeta == InitMeta /\ [][NextMeta]_vars

\* The declarations of Item subclasses and the items built for the tables.
NextTypes ==
    \/ \E name \in TableNames, cls \in ItemClasses : TDeclare(name, cls)
    \/ \E name \in TableNames : TMake(name)

SpecTypes == InitMeta /\ [][NextTypes]_vars

\* ------------------------------------------- claims on the metaclasses
\* Every declaration and lookup sets fout, so in a step that changes the
\* state fout' describes the call that made the step.

\* The members of the registry reg that the selector idx designates: the
\* member at that index, the member that idx is, the members of that name.
Designated(reg, idx) ==
    {Variant(reg, n - 1) : n \in
        {n \in 1..Len(members[reg]) :
            \/ idx = PyInt(n - 1)
            \/ idx = Variant(reg, n - 1)
            \/ idx = Text(members[reg][n])}}

\* C21: after any registrations in one or more registries, looking up a
\* registered member's index, its name or the member itself in its registry
\* returns that member, the index being the position of its registration;
\* registrations made earlier are not changed by later ones.
C21_LookupReturnsMember ==
    [][/\ fout'.op = "getitem" =>
             \A v \in Designated(fout'.reg, fout'.arg) :
                 fout'.exc = "none" /\ fout'.val = v
       /\ \A reg \in Registries :
             \A n \in 1..Len(members[reg]) :
                 /\ n <= Len(members'[reg])
                 /\ members'[reg][n] = members[reg][n]]_vars

\* The names of a registry's members are pairwise distinct.
NamesUnique(reg) ==
    \A m, n \in 1..Len(members[reg]) :
        members[reg][m] = members[reg][n] => m = n

\* C22: registering a name appends a member whose index is the number of
\* members before the call, and fails, leaving the members and their number
\* unchanged, when the registry already has a member of that name; so the
\* names within a registry stay distinct.
C22_RegisterRefusesDuplicate ==
    [][fout'.op = "register" =>
          LET reg == fout'.reg
              name == fout'.arg.s
          IN  /\ IF \E n \in 1..Len(members[reg]) : members[reg][n] = name
                 THEN fout'.exc /= "none" /\ members' = members
                 ELSE /\ fout'.exc = "none"
                      /\ members'[reg] = Append(members[reg], name)
                      /\ fout'.val = Variant(reg, Len(members[reg]))
              /\ \A r \in Registries : NamesUnique(r)']_vars

\* The errors that say that a selector matches no member.
NotFoundErrors == {"KeyError", "IndexError"}

\* C23: a lookup in a registry has three outcomes: an integer, a member
\* class or a string that matches a member returns that member; one that
\* matches no member (a negative integer and one past the end included)
\* fails as not found; a selector of any other type fails with an error
\* that is not the not-found one.
C23_LookupOutcomes ==
    [][fout'.op = "getitem" =>
          LET matched == Designated(fout'.reg, fout'.arg)
          IN  IF fout'.arg.t \in {"int", "variant", "str"}
              THEN IF matched /= {}
                   THEN fout'.exc = "none" /\ fout'.val \in matched
                   ELSE fout'.exc \in NotFoundErrors
              ELSE fout'.exc \notin {"none"} \cup NotFoundErrors]_vars

\* An item built for a table is of the class the table name is bound to.
MakesBoundClass ==
    fout'.op = "make" =>
        fout'.val = Text(IF fout'.reg \in DOMAIN table_types
                         THEN table_types[fout'.reg] ELSE "Item")

Reader == "r1"

Writer == "w1"

InitSteps ==
    /\ range_key_name \in {None, RangeAttr}
    /\ has_cache = TRUE
    /\ cache_duration = "60"
    /\ store = {}
    /\ cache = EmptyDict
    /\ items = EmptyDict
    /\ result = Result("init", None, None, "ok", <<>>, <<>>, <<>>)
    /\ put_ok = {}
    /\ put_synced = {}
    /\ overwritten = {}
    /\ members = EmptyDict
    /\ enum_attrs = EmptyDict
    /\ field = EmptyDict
    /\ obj = EmptyDict
    /\ fout = EmptyDict
    /\ table_types = EmptyDict
    /\ pending = None

\* Item.put with a fault: the store and the cache are written in one step.
PutStoreAndCache(i) ==
    /\ pending = None
    /\ i \in DOMAIN items
    /\ LET item == items[i]
           saved == put_done(item, "put_item")
       IN  /\ store' = StorePut(item)
           /\ items' = DictSet(items, i, saved)
           /\ cache' = set_cache(cache, saved)
           /\ result' = Result("put_store", hash_key(item), range_key(item),
                               "ok", <<"put_item">>, <<>>, <<saved>>)
    /\ pending' = i
    /\ UNCHANGED <<range_key_name, has_cache, cache_duration, put_ok,
                   put_synced, overwritten>>
    /\ UNCHANGED fvars

\* Item.put, first step: super().put() returned and is_new is cleared.
PutStore(i) ==
    /\ pending = None
    /\ i \in DOMAIN items
    /\ LET item == items[i]
           saved == put_done(item, "put_item")
       IN  /\ store' = StorePut(item)
           /\ items' = DictSet(items, i, saved)
           /\ cache' = cache
           /\ result' = Result("put_store", hash_key(item), range_key(item),
                               "ok", <<"put_item">>, <<>>, <<saved>>)
    /\ pending' = i
    /\ UNCHANGED <<range_key_name, has_cache, cache_duration, put_ok,
                   put_synced, overwritten>>
    /\ UNCHANGED fvars

\* Item.put, second step: self._set_cache().
PutCache(i) ==
    /\ pending = i
    /\ LET item == items[i]
       IN  /\ cache' = set_cache(cache, item)
           /\ result' = Result("put_cache", hash_key(item), range_key(item),
                               "ok", <<>>, <<"set">>, <<item>>)
    /\ pending' = None
    /\ UNCHANGED <<range_key_name, has_cache, cache_duration, store, items,
                   put_ok, put_synced, overwritten>>
    /\ UNCHANGED fvars

\* The writer's process stops between the two steps.
PutCrash ==
    /\ pending /= None
    /\ pending' = None
    /\ result' = Result("crash", None, None, "ok", <<>>, <<>>, <<>>)
    /\ UNCHANGED <<range_key_name, has_cache, cache_duration, store, cache,
                   items, put_ok, put_synced, overwritten>>
    /\ UNCHANGED fvars

\* The writer's calls between its puts.
WriterIdle(i) ==
    /\ pending = None
    /\ \/ \E h \in HashKeys, r \in RangeKeys \cup {None}, a \in AttrChoices :
             Create(i, h, r, a)
       \/ \E v \in Values \cup {None} : FieldSet(i, FieldAttr, v)

NextSteps ==
    \/ \E h \in HashKeys, r \in RangeKeys \cup {None} :
          Lookup(Reader, h, r, "none")
    \/ WriterIdle(Writer)
    \/ PutStore(Writer)
    \/ PutCache(Writer)
    \/ PutCrash

SpecSteps == InitSteps /\ [][NextSteps]_vars

\* ------------------------------------------------ claims on the steps

\* C25: the store write and the cache write-through of a put are two steps:
\* the first writes the store and leaves the cache as it was, the second
\* writes the cache and leaves the store; a lookup between them is served
\* from the cache as it then is, so a state is reachable where a lookup
\* returns a record from before the write although the store holds the new
\* one.
C25_StoreThenCache ==
    [][/\ result'.op = "put_store"
             => /\ cache' = cache
                /\ pending' \in DOMAIN items
                /\ items[pending'].raw \in store'
       /\ result'.op = "put_cache" => store' = store /\ pending \in DOMAIN items
       /\ pending /= None /\ result'.op = "lookup"
             /\ InCache(result'.hash_key, result'.range_key)
             => /\ result'.store_ops = <<>>
                /\ result'.returned[1].raw
                      = cache[get_cache_key(result'.hash_key, result'.range_key)]]_vars

\* C25 witness: while a put is between its two steps, a lookup was served
\* from the cache a record that differs from the one the store holds under
\* its key.
C25_Witness ==
    /\ pending /= None
    /\ result.op = "lookup"
    /\ result.cache_ops = <<"get">>
    /\ result.store_ops = <<>>
    /\ Len(result.returned) = 1
    /\ StoreFind(result.hash_key, result.range_key) /= {}
    /\ result.returned[1].raw \notin StoreFind(result.hash_key, result.range_key)

\* ------------------------------------------- claims on the items (2)

\* The store refuses the conditional write of the item: its expected values
\* do not hold of the store's record under its key.
Refused(item) ==
    ~ExpectedHolds(get_expected(item),
                   StoreFind(hash_key(item), range_key(item)))

\* C26: in put, save and delete the cache call is made only after the store
\* call of the same call returned; when the store call fails (a transport
\* error, or the refusal of a conditional write) the caller gets the
\* failure, no cache call is made, and the cache, the store and the item
\* (is_new, raw mapping, snapshot) are unchanged.
C26_CacheAfterStoreSuccess ==
    [][result'.op \in WriteOps =>
          /\ result'.cache_ops /= <<>> => StoreCallReturned(result')
          /\ \A i \in DOMAIN items :
                result'.op \in ConditionalOps /\ Refused(items[i])
                    => ~StoreCallReturned(result')
          /\ ~StoreCallReturned(result') =>
                /\ result'.cache_ops = <<>>
                /\ cache' = cache
                /\ store' = store
                /\ items' = items]_vars

\* C26 witness: a conditional write on a changed item was refused by the
\* store while the cache holds an entry for its key.
C26_Witness ==
    /\ result.op \in ConditionalOps
    /\ result.outcome = "PreconditionFailed"
    /\ result.cache_ops = <<>>
    /\ InCache(result.hash_key, result.range_key)
    /\ \E i \in DOMAIN items : items[i].raw /= items[i].original

\* C27: an item's snapshot is its raw mapping as of construction (by a
\* lookup or by create) and no call on the item changes it afterwards:
\* neither the fields' get, set and delete, nor get_expected, nor put, save,
\* put_conditionally, save_conditionally or delete.
C27_SnapshotNeverChanges ==
    [][\A i \in DOMAIN items' :
          \/ i \in DOMAIN items /\ items'[i].original = items[i].original
          \/ /\ result'.op \in {"lookup", "create"}
             /\ items'[i].original = items'[i].raw]_vars

\* C27 witness: a put or save of a changed item returned and the item's
\* snapshot still differs from its raw mapping.
C27_Witness ==
    /\ result.op \in PersistOps
    /\ result.outcome = "ok"
    /\ \E i \in DOMAIN items :
          /\ ~items[i].is_new
          /\ items[i].raw /= items[i].original
          /\ items[i].raw \in store

\* ------------------------------------------------- claims on the fields (2)

\* C28: after any sequence of get, set and delete calls of a field on a
\* record, successful or failing, the default's materialization included,
\* the record's raw mapping still holds its hash-key attribute, and its
\* range-key attribute if the schema declares one, with the values given at
\* construction.
C28_KeyAttributesKept ==
    \A k \in DOMAIN KeysOnly : k \in DOMAIN obj /\ obj[k] = KeysOnly[k]

\* C28 witness: a set or a delete through a field on a key attribute was
\* refused.
C28_Witness ==
    /\ OnKey
    /\ fout.op \in {"set", "del"}
    /\ fout.exc \in ImmutableKeyErrors
    /\ range_key_name /= None

\* ------------------------------------------------- two records of one key

\* Two callers' handles, each on a record of its own.
Handles == {"r1", "r2"}

\* A table without a cache: what a lookup returns is the store's record.
InitPair ==
    /\ range_key_name \in {None, RangeAttr}
    /\ has_cache = FALSE
    /\ cache_duration = None
    /\ store = {}
    /\ cache = EmptyDict
    /\ items = EmptyDict
    /\ result = Result("init", None, None, "ok", <<>>, <<>>, <<>>)
    /\ put_ok = {}
    /\ put_synced = {}
    /\ overwritten = {}
    /\ members = EmptyDict
    /\ enum_attrs = EmptyDict
    /\ field = EmptyDict
    /\ obj = EmptyDict
    /\ fout = EmptyDict
    /\ table_types = EmptyDict
    /\ pending = None

\* Each caller looks its record up, assigns the attribute and writes with
\* put_conditionally; the store and the calls do not fail otherwise.
\* Another writer fills and changes the table.
NextPair ==
    \/ \E i \in Handles, h \in HashKeys, r \in RangeKeys \cup {None} :
          Lookup(i, h, r, "none")
    \/ \E i \in Handles, v \in Values \cup {None} : FieldSet(i, FieldAttr, v)
    \/ \E i \in Handles : PutConditionally(i, "none")
    \/ \E h \in HashKeys, r \in RangeKeys \cup {None}, a \in AttrChoices,
          d \in BOOLEAN : OtherWriter(h, r, a, d)

SpecPair == InitPair /\ [][NextPair]_vars

\* ------------------------------------------------- claims on the two records

\* The record's mapping is not its snapshot: an attribute was changed.
Changed(item) == item.raw /= item.original

\* i and j hold records of one key that were loaded from one store state.
LoadedTogether(i, j) ==
    /\ {i, j} \subseteq DOMAIN items
    /\ ~items[i].is_new /\ ~items[j].is_new
    /\ ItemKey(items[i]) = ItemKey(items[j])
    /\ items[i].original = items[j].original

\* j's put_conditionally of its change succeeded and nobody wrote since.
Won(j) ==
    /\ Changed(items[j])
    /\ j \notin overwritten
    /\ items[j].raw \in store

\* The step is the put_conditionally of the second of two records loaded
\* together, after the first one's succeeded: it is refused.
LostUpdateRefused ==
    \A i, j \in Handles :
        /\ i /= j
        /\ LoadedTogether(i, j)
        /\ Won(j)
        /\ Changed(items[i])
        /\ PutConditionally(i, "none")
        => result'.outcome = "PreconditionFailed"

\* The step is the put_conditionally of a record whose key nobody wrote
\* since the record was made: it succeeds.
LoneWriterSucceeds ==
    \A i \in Handles :
        /\ i \in DOMAIN items
        /\ i \notin overwritten
        /\ PutConditionally(i, "none")
        => result'.outcome = "ok"

\* C29: no update is lost under conditional writes.  When two records of one
\* key are loaded from one store state, each changes an attribute and both
\* call put_conditionally, in any order, at most one call succeeds and the
\* other fails with PreconditionFailed; and the put_conditionally of a single
\* record, with no other writer in between, succeeds.
C29_NoLostUpdate == [][LostUpdateRefused /\ LoneWriterSucceeds]_vars

\* ------------------------------------------------- a single caller

\* Range keys of which one holds the separator of the cache key.
SoloRangeKeys == {"b", "b_b"}

\* The store calls of a single caller return or fail in transport; the
\* cache calls do not fail.
StoreFaults == {"none", "TransportError"}

\* One caller's lookups, creates, puts, deletes and field operations on a
\* table nobody else writes, with no failing cache call.
NextSolo ==
    \/ \E i \in ItemIds, h \in WideHashKeys, r \in SoloRangeKeys \cup {None} :
          Lookup(i, h, r, "none")
    \/ \E i \in ItemIds, h \in WideHashKeys, r \in SoloRangeKeys \cup {None},
          a \in AttrChoices : Create(i, h, r, a)
    \/ \E i \in ItemIds, f \in StoreFaults : Put(i, f)
    \/ \E i \in ItemIds, f \in StoreFaults : Delete(i, f)
    \/ \E i \in ItemIds, v \in Values \cup {None} : FieldSet(i, FieldAttr, v)
    \/ \E i \in ItemIds : FieldDelete(i, FieldAttr)

SpecSolo == Init /\ [][NextSolo]_vars

\* ------------------------------------------------- claims on the single caller

\* The keys of the schema the caller uses.
SoloKeys ==
    IF range_key_name = None
    THEN {<<h, None>> : h \in WideHashKeys}
    ELSE WideHashKeys \X SoloRangeKeys

\* The cache entry of key k, if there is one, is the store's record of k.
CacheAgrees(k) ==
    InCache(k[1], k[2]) => cache[get_cache_key(k[1], k[2])] \in StoreFind(k[1], k[2])

\* C30: with a single caller and no failing cache call, after every lookup,
\* put and delete the cache entry of each key is absent or equal to the
\* store's record of that key; a draft returned by a lookup that missed, a
\* create and the field operations write no cache entry; and after a delete
\* that succeeded the key has no cache entry.
C30_CacheAgreesWithStore ==
    [][/\ \A k \in SoloKeys : CacheAgrees(k)'
       /\ result'.op \in {"create", "set", "del"} => cache' = cache
       /\ result'.op = "lookup" /\ result'.store_ops = <<"get_item">>
             /\ result'.returned /= <<>> /\ result'.returned[1].is_new
             => cache' = cache
       /\ result'.op = "delete" /\ result'.outcome = "ok"
             => get_cache_key(result'.hash_key, result'.range_key)
                    \notin DOMAIN cache']_vars

\* ------------------------------------------------- claims on the fields (3)

\* C31: a get of a field never fails with the error of a read-only field or
\* of a key attribute: for a readonly field (or a field on a key) whose
\* attribute is absent and whose default resolves to a value that is not
\* empty, the get returns that value to the caller.
C31_GetNeverRefused ==
    [][fout'.op = "get" =>
          /\ fout'.exc \notin ImmutableKeyErrors \cup {ReadOnlyError}
          /\ /\ field.readonly \/ OnKey
             /\ field.name \notin DOMAIN obj
             /\ DefaultResolves(field, obj)
             => /\ fout'.exc = "none"
                /\ fout'.val = ResolvedDefault(field, obj).val]_vars

\* ------------------------------------------- claims on the metaclasses (2)

\* C32: the registries are isolated from each other.  With two or more
\* registries declared in any order, a successful lookup in a registry R
\* that returns a member returns one that was registered in R itself: for a
\* string selector also when another registry has a member of that name, and
\* for a member selector only when the member is R's own (a member of
\* another registry is not resolved to a member of R).
C32_RegistriesIsolated ==
    [][fout'.op = "getitem" /\ fout'.exc = "none" =>
          /\ fout'.val.t = "variant" => fout'.val.s = fout'.reg
          /\ fout'.arg.t = "variant" => fout'.arg.s = fout'.reg]_vars

====
